---- MODULE Spec2Model ----
(***************************************************************************)
(* Model of the mongo-llm `run` request of bharat948/Database-cli:         *)
(* schema inspection, the model call (call_llm, with its fence stripping), *)
(* translate, the confirmation gate, execute and the renderer, together    *)
(* with the MongoDBTool class that execute dispatches on by attribute      *)
(* name and that build_tool_schema reflects on.                            *)
(* Spec is a whole request; SpecInspect is a request up to the end of      *)
(* inspect_schema over a wider range of databases; SpecTool is one call of *)
(* a function of MongoDBTool (identifier normalization, serialization).    *)
(***************************************************************************)
EXTENDS Integers, Sequences, FiniteSets, TLC

(***************************************************************************)
(* JSON values.  A value is a record tagged by "kind"; a mapping carries   *)
(* its members as a function from key to value.                            *)
(***************************************************************************)
Str(s) == [kind |-> "str", s |-> s]

Num == [kind |-> "num"]

Null == [kind |-> "null"]

List == [kind |-> "list"]

EmptyMap == [k \in {} |-> Null]

Dict(m) == [kind |-> "dict", m |-> m]

\* a JSON string value given by the tokens between its quotes
Text(chars) == [kind |-> "text", chars |-> chars]

IsDict(v) == v.kind = "dict"

IsStr(v) == v.kind = "str"

\* Python hashability of a decoded JSON value: lists and dicts are unhashable
Hashable(v) == v.kind \notin {"list", "dict"}

\* a variable that holds no value yet
Unset == [kind |-> "unset"]

\* f"<prefix>{arg}": a formatted message, never empty since its prefix is not
Fmt(prefix, arg) == [kind |-> "str", s |-> prefix, arg |-> arg]

NonEmptyStr(v) == v.kind = "str" /\ v.s # ""

(***************************************************************************)
(* class MongoDBTool: its functions in inspect.getmembers order (sorted by *)
(* name), their signatures, and the instance attributes set by __init__.   *)
(***************************************************************************)
P(n) == [name |-> n, kind |-> "pos", hasDefault |-> FALSE]

PD(n) == [name |-> n, kind |-> "pos", hasDefault |-> TRUE]

VarKw(n) == [name |-> n, kind |-> "varkw", hasDefault |-> FALSE]

ClassFunctions ==
    << "__init__", "_process_object_ids", "_serialize_document",
       "_serialize_documents", "aggregate_documents", "bulk_write",
       "count_documents", "create_collection", "create_index",
       "delete_documents", "delete_one_document", "distinct_values",
       "drop_collection", "drop_index", "find_documents",
       "find_one_and_update", "find_one_document", "get_collection_stats",
       "insert_document", "insert_many_documents", "list_collections",
       "list_indexes", "rename_collection", "run_command",
       "update_documents", "update_one_document" >>

\* name.startswith("_")
StartsWithUnderscore(name) ==
    name \in {"__init__", "_process_object_ids", "_serialize_document",
              "_serialize_documents"}

\* the parameters of each function after self
Signature(name) ==
    CASE name = "__init__" -> << P("uri"), P("db_name") >>
      [] name = "_process_object_ids" -> << P("query") >>
      [] name = "_serialize_document" -> << P("doc") >>
      [] name = "_serialize_documents" -> << P("cursor_or_list") >>
      [] name = "list_collections" -> << >>
      [] name = "create_collection" -> << P("name") >>
      [] name = "drop_collection" -> << P("name") >>
      [] name = "list_indexes" -> << P("collection") >>
      [] name = "create_index" -> << P("collection"), P("keys"), VarKw("options") >>
      [] name = "drop_index" -> << P("collection"), P("index_name") >>
      [] name = "insert_document" -> << P("collection"), P("document") >>
      [] name = "find_documents" -> << P("collection"), P("filter"), PD("limit") >>
      [] name = "update_documents" -> << P("collection"), P("filter"), P("update") >>
      [] name = "delete_documents" -> << P("collection"), P("filter") >>
      [] name = "aggregate_documents" -> << P("collection"), P("pipeline") >>
      [] name = "count_documents" -> << P("collection"), P("filter") >>
      [] name = "distinct_values" -> << P("collection"), P("field"), PD("filter") >>
      [] name = "rename_collection" -> << P("old_name"), P("new_name") >>
      [] name = "get_collection_stats" -> << P("collection") >>
      [] name = "bulk_write" -> << P("collection"), P("operations") >>
      [] name = "find_one_document" ->
            << P("collection"), P("filter"), PD("projection") >>
      [] name = "insert_many_documents" -> << P("collection"), P("documents") >>
      [] name = "update_one_document" ->
            << P("collection"), P("filter"), P("update"), PD("upsert") >>
      [] name = "delete_one_document" -> << P("collection"), P("filter") >>
      [] name = "find_one_and_update" ->
            << P("collection"), P("filter"), P("update"), PD("projection"),
               PD("sort"), PD("upsert"), PD("return_document") >>
      [] name = "run_command" -> << P("command"), VarKw("kwargs") >>

Range(seq) == {seq[i] : i \in DOMAIN seq}

\* self.client and self.db, set by __init__
InstanceAttributes == {"client", "db"}

\* the storage-engine (pymongo) method each function calls
EngineMethod(name) ==
    CASE name = "__init__" -> "MongoClient"
      [] name = "list_collections" -> "list_collection_names"
      [] name = "create_collection" -> "create_collection"
      [] name = "drop_collection" -> "drop"
      [] name = "list_indexes" -> "list_indexes"
      [] name = "create_index" -> "create_index"
      [] name = "drop_index" -> "drop_index"
      [] name = "insert_document" -> "insert_one"
      [] name = "find_documents" -> "find"
      [] name = "update_documents" -> "update_many"
      [] name = "delete_documents" -> "delete_many"
      [] name = "aggregate_documents" -> "aggregate"
      [] name = "count_documents" -> "count_documents"
      [] name = "distinct_values" -> "distinct"
      [] name = "rename_collection" -> "rename"
      [] name = "get_collection_stats" -> "command"
      [] name = "bulk_write" -> "bulk_write"
      [] name = "find_one_document" -> "find_one"
      [] name = "insert_many_documents" -> "insert_many"
      [] name = "update_one_document" -> "update_one"
      [] name = "delete_one_document" -> "delete_one"
      [] name = "find_one_and_update" -> "find_one_and_update"
      [] name = "run_command" -> "command"
      [] OTHER -> "none"

\* the functions whose body returns nothing (-> None)
ReturnsNone(name) ==
    name \in {"__init__", "create_collection", "drop_collection", "drop_index",
              "rename_collection"}

(***************************************************************************)
(* build_tool_schema: one entry per function of the class that passes the  *)
(* predicate, each parameter with its name, required flag and whether a    *)
(* default is printed (the type strings and docstrings are left out).      *)
(***************************************************************************)
SchemaPredicate(name) == ~StartsWithUnderscore(name)

SchemaParameter(p) ==
    [name |-> p.name, required |-> ~p.hasDefault, defaulted |-> p.hasDefault]

SchemaEntry(name) ==
    [name |-> name,
     parameters |-> [i \in DOMAIN Signature(name) |-> SchemaParameter(Signature(name)[i])]]

build_tool_schema ==
    LET methods == SelectSeq(ClassFunctions, SchemaPredicate)
    IN  [i \in DOMAIN methods |-> SchemaEntry(methods[i])]

(***************************************************************************)
(* The storage engine and the bodies of the tool's functions are an        *)
(* environment: a call either returns a value or raises an Exception with  *)
(* some message, possibly the empty one (str(Exception()) == "").          *)
(***************************************************************************)
EngineMessages == {"", "E11000 duplicate key error", "ns not found"}

EngineReturns == {Num, List, Dict(EmptyMap)}

EngineOutcomes ==
    {[raises |-> TRUE, msg |-> m, ret |-> Null] : m \in EngineMessages}
    \cup {[raises |-> FALSE, msg |-> "", ret |-> r] : r \in EngineReturns}

\* what a call of a function does to the database once the storage engine
\* has carried it out: db[name].drop(), drop_index, delete_many, and the
\* drop command given to db.command as {"drop": <collection>} or as
\* ("drop", value=<collection>)
EngineEffect(name, args) ==
    CASE name = "drop_collection" -> "collection dropped"
      [] name = "drop_index" -> "index dropped"
      [] name = "delete_documents" -> "documents deleted"
      [] name = "run_command" ->
            IF \/ args["command"] = Str("drop")
               \/ IsDict(args["command"]) /\ "drop" \in DOMAIN args["command"].m
            THEN "collection dropped"
            ELSE "other"
      [] OTHER -> "other"

(***************************************************************************)
(* execute                                                                 *)
(***************************************************************************)
\* getattr(tool, method_name, None): "raise" for a name that is no string,
\* "function" for a function of the class, "object" for an instance
\* attribute, "None" when the attribute is missing
GetAttr(method_name) ==
    IF ~IsStr(method_name) THEN "raise"
    ELSE IF method_name.s \in Range(ClassFunctions) THEN "function"
    ELSE IF method_name.s \in InstanceAttributes THEN "object"
    ELSE "None"

\* Python's binding of **args to the parameters of a bound method
BindOk(name, kw) ==
    LET sig == Range(Signature(name))
        named == {p.name : p \in {q \in sig : q.kind = "pos"}}
        required == {p.name : p \in {q \in sig : q.kind = "pos" /\ ~q.hasDefault}}
        hasVarKw == \E p \in sig : p.kind = "varkw"
    IN  required \subseteq kw /\ (kw \subseteq named \/ hasVarKw)

Envelope(success, data, error) == [success |-> success, data |-> data, error |-> error]

\* the body of the try block: what it returns or the exception it raises,
\* the storage-engine calls made and the attribute that was called
Returned(envelope, calls, invoked) ==
    [raised |-> FALSE, msg |-> Null, envelope |-> envelope, calls |-> calls,
     invoked |-> invoked]

Raised(msg, calls, invoked) ==
    [raised |-> TRUE, msg |-> msg, envelope |-> Unset, calls |-> calls,
     invoked |-> invoked]

ExecuteBody(parsed_query, eng) ==
    LET method_name == parsed_query.tool
        method == GetAttr(method_name)
    IN  IF method = "raise"
        THEN Raised(Str("attribute name must be string"), << >>, "none")
        ELSE IF method = "None"
        THEN Returned(Envelope(FALSE, Null, Fmt("Unknown method: ", method_name)),
                      << >>, "none")
        ELSE IF method = "object"
        THEN Raised(Fmt("object is not callable: ", method_name), << >>,
                    method_name.s)
        ELSE IF ~BindOk(method_name.s, DOMAIN parsed_query.args.m)
        THEN Raised(Fmt("TypeError: bad arguments for ", method_name), << >>,
                    "none")
        ELSE IF EngineMethod(method_name.s) = "none"
        THEN IF eng.raises
             THEN Raised(Str("AttributeError"), << >>, method_name.s)
             ELSE Returned(Envelope(TRUE, eng.ret, Null), << >>, method_name.s)
        ELSE IF eng.raises
        THEN Raised(Str(eng.msg), << EngineMethod(method_name.s) >>, method_name.s)
        ELSE Returned(Envelope(TRUE,
                               IF ReturnsNone(method_name.s) THEN Null ELSE eng.ret,
                               Null),
                      << EngineMethod(method_name.s) >>, method_name.s)

\* execute without its except clause: an exception of the body propagates
execute_NoExcept(parsed_query, eng) == ExecuteBody(parsed_query, eng)

\* try: ... except Exception as e: return {success: False, error: str(e), data: None}
execute(parsed_query, eng) ==
    LET body == ExecuteBody(parsed_query, eng)
    IN  IF body.raised
        THEN Returned(Envelope(FALSE, Null, body.msg), body.calls, body.invoked)
        ELSE body

(***************************************************************************)
(* Response text.  A text is a sequence of tokens: a run of three          *)
(* backticks, the letters json, whitespace, a double quote, a number       *)
(* literal, a word of prose, or the JSON text of a document (an object,    *)
(* array or null holding no backtick).                                     *)
(***************************************************************************)
Tok(t) == [t |-> t]

DocTok(v) == [t |-> "doc", v |-> v]

\* a run of three backticks
BT == Tok("fence")

JSONWORD == Tok("json")

WS == Tok(" ")

QUOTE == Tok("quote")

NUMLIT == Tok("1")

PROSE == Tok("prose")

\* the characters a JSON string may hold unescaped
StringChars == {BT, JSONWORD, WS, NUMLIT, PROSE}

StartsAt(s, sep, i) ==
    /\ i + Len(sep) - 1 <= Len(s)
    /\ \A k \in 1..Len(sep) : s[i + k - 1] = sep[k]

\* index of the first occurrence of sep in s, 0 if there is none
Find(s, sep) ==
    LET hits == {i \in 1..Len(s) : StartsAt(s, sep, i)}
    IN  IF hits = {} THEN 0 ELSE CHOOSE i \in hits : \A j \in hits : i <= j

\* sep in s
Contains(s, sep) == Find(s, sep) # 0

\* s.split(sep)
RECURSIVE Split(_, _)
Split(s, sep) ==
    LET i == Find(s, sep)
    IN  IF i = 0 THEN << s >>
        ELSE << SubSeq(s, 1, i - 1) >> \o Split(SubSeq(s, i + Len(sep), Len(s)), sep)

\* s.strip()
Strip(s) ==
    LET keep == {i \in 1..Len(s) : s[i] # WS}
    IN  IF keep = {} THEN << >>
        ELSE SubSeq(s, CHOOSE i \in keep : \A j \in keep : i <= j,
                       CHOOSE i \in keep : \A j \in keep : j <= i)

\* json.loads(s): the value of a text that is one JSON document, with
\* whitespace allowed around it; anything else is a JSONDecodeError
JsonLoads(s) ==
    LET t == Strip(s)
    IN  IF Len(t) = 1 /\ t[1].t = "doc" THEN [ok |-> TRUE, value |-> t[1].v]
        ELSE IF t = << NUMLIT >> THEN [ok |-> TRUE, value |-> Num]
        ELSE IF /\ Len(t) >= 2
                /\ t[1] = QUOTE
                /\ t[Len(t)] = QUOTE
                /\ \A i \in 2..(Len(t) - 1) : t[i] \in StringChars
        THEN [ok |-> TRUE, value |-> Text(SubSeq(t, 2, Len(t) - 1))]
        ELSE [ok |-> FALSE, value |-> Null]

\* call_llm, the fence stripping of response.text
StripFences(response_text) ==
    IF Contains(response_text, << BT, JSONWORD >>)
    THEN Strip(Split(Split(response_text, << BT, JSONWORD >>)[2], << BT >>)[1])
    ELSE IF Contains(response_text, << BT >>)
    THEN Strip(Split(Split(response_text, << BT >>)[2], << BT >>)[1])
    ELSE response_text

\* the try block of call_llm with the stripped text in the message
ParseResponse_StrippedText(response_text) ==
    LET parsed_response == JsonLoads(StripFences(response_text))
    IN  IF parsed_response.ok
        THEN [raised |-> FALSE, value |-> parsed_response.value, msg |-> Null]
        ELSE [raised |-> TRUE, value |-> Null,
              msg |-> Fmt("Failed to parse LLM response: ",
                          Text(StripFences(response_text)))]

\* call_llm, the try block: the parsed value, or ValueError carrying the
\* decoder message and the text as the model sent it
ParseResponse(response_text) ==
    LET parsed_response == JsonLoads(StripFences(response_text))
    IN  IF parsed_response.ok
        THEN [raised |-> FALSE, value |-> parsed_response.value, msg |-> Null]
        ELSE [raised |-> TRUE, value |-> Null,
              msg |-> Fmt("Failed to parse LLM response: ", Text(response_text))]

(***************************************************************************)
(* translate                                                               *)
(***************************************************************************)
ParsedQuery(tool, args) == [tool |-> tool, args |-> args]

\* translate without the isinstance check of args
translate_NoArgsCheck(llm_response) ==
    IF ~IsDict(llm_response)
    THEN [raised |-> TRUE, value |-> Unset,
          msg |-> Str("Expected a dictionary response")]
    ELSE IF "tool" \notin DOMAIN llm_response.m
    THEN [raised |-> TRUE, value |-> Unset,
          msg |-> Str("Missing 'tool' field in LLM response")]
    ELSE IF "args" \notin DOMAIN llm_response.m
    THEN [raised |-> TRUE, value |-> Unset,
          msg |-> Str("Missing 'args' field in LLM response")]
    ELSE [raised |-> FALSE, msg |-> Null,
          value |-> ParsedQuery(llm_response.m["tool"], llm_response.m["args"])]

translate(llm_response) ==
    IF ~IsDict(llm_response)
    THEN [raised |-> TRUE, value |-> Unset,
          msg |-> Str("Expected a dictionary response")]
    ELSE IF "tool" \notin DOMAIN llm_response.m
    THEN [raised |-> TRUE, value |-> Unset,
          msg |-> Str("Missing 'tool' field in LLM response")]
    ELSE IF "args" \notin DOMAIN llm_response.m
    THEN [raised |-> TRUE, value |-> Unset,
          msg |-> Str("Missing 'args' field in LLM response")]
    ELSE IF ~IsDict(llm_response.m["args"])
    THEN [raised |-> TRUE, value |-> Unset,
          msg |-> Str("Expected 'args' to be a dictionary")]
    ELSE [raised |-> FALSE, msg |-> Null,
          value |-> ParsedQuery(llm_response.m["tool"], llm_response.m["args"])]

(***************************************************************************)
(* confirmation                                                            *)
(***************************************************************************)
\* the destructive set with drop_index left out
DESTRUCTIVE_OPERATIONS_NoDropIndex == {"drop_collection", "delete_documents"}

DESTRUCTIVE_OPERATIONS == {"drop_collection", "drop_index", "delete_documents"}

\* what the user gives click.confirm: yes, no, an empty line (the default),
\* or no input at all (end of input on a terminal-less run)
Answers == {"yes", "no", "", "EOF"}

\* click.confirm(..., default=False): raises Abort at end of input
ClickConfirm(answer) ==
    IF answer = "EOF" THEN "Abort" ELSE IF answer = "yes" THEN "True" ELSE "False"

\* confirmation that echoes the notice but does not raise on a declined prompt
confirmation_NoRaise(tool_name, answer) ==
    IF ~Hashable(tool_name)
    THEN [prompted |-> FALSE, echoed |-> << >>, outcome |-> "TypeError"]
    ELSE IF IsStr(tool_name) /\ tool_name.s \in {"drop_collection", "drop_index",
                                                  "delete_documents"}
    THEN LET confirmed == ClickConfirm(answer)
         IN  IF confirmed = "Abort"
             THEN [prompted |-> TRUE, echoed |-> << >>, outcome |-> "Abort"]
             ELSE IF confirmed = "False"
             THEN [prompted |-> TRUE, echoed |-> << Str("Operation aborted.") >>,
                   outcome |-> "yield"]
             ELSE [prompted |-> TRUE, echoed |-> << >>, outcome |-> "yield"]
    ELSE [prompted |-> FALSE, echoed |-> << >>, outcome |-> "yield"]

\* the context manager up to its yield: whether it prompted, what it
\* echoed, and whether it yields ("yield") or raises ("Abort", "TypeError")
confirmation(tool_name, answer) ==
    IF ~Hashable(tool_name)
    THEN [prompted |-> FALSE, echoed |-> << >>, outcome |-> "TypeError"]
    ELSE IF IsStr(tool_name) /\ tool_name.s \in DESTRUCTIVE_OPERATIONS
    THEN LET confirmed == ClickConfirm(answer)
         IN  IF confirmed = "Abort"
             THEN [prompted |-> TRUE, echoed |-> << >>, outcome |-> "Abort"]
             ELSE IF confirmed = "False"
             THEN [prompted |-> TRUE, echoed |-> << Str("Operation aborted.") >>,
                   outcome |-> "Abort"]
             ELSE [prompted |-> TRUE, echoed |-> << >>, outcome |-> "yield"]
    ELSE [prompted |-> FALSE, echoed |-> << >>, outcome |-> "yield"]

(***************************************************************************)
(* MongoDBTool: identifiers, filters and documents                         *)
(***************************************************************************)
\* a list together with its items
ListOf(items) == [kind |-> "list", items |-> items]

IsItemList(v) == v.kind = "list" /\ "items" \in DOMAIN v

\* the strings of 24 hexadecimal digits of the model, in lower and upper case
HexIds == {"5f50c31e8a91e73550a97d5f", "5F50C31E8A91E73550A97D5F"}

IdStrings == HexIds \cup {"invalid-object-id"}

\* str.lower over the identifier strings of the model
Lower(s) ==
    IF s = "5F50C31E8A91E73550A97D5F" THEN "5f50c31e8a91e73550a97d5f" ELSE s

\* ObjectId(s) accepts a string of 24 hexadecimal digits (of either case)
\* and raises InvalidId for any other string
IsValidId(s) == s \in HexIds

\* an ObjectId that remembers the case its string was written in
ObjectId_KeepCase(s) == [kind |-> "oid", hex |-> s]

\* ObjectId(s) keeps the twelve bytes that s denotes: the case of s is lost
ObjectId(s) == [kind |-> "oid", hex |-> Lower(s)]

\* str(ObjectId(...)): the bytes in lower-case hexadecimal
OidStr(o) == Str(o.hex)

IsObjectId(v) == v.kind = "oid"

\* ObjectId(id_str) if isinstance(id_str, str) else id_str
ConvertItem(v) == IF IsStr(v) THEN ObjectId(v.s) ELSE v

\* _process_object_ids(query): value is the filter returned, caller is the
\* query object of the caller after the call (result = query.copy() is a
\* shallow copy, so the nested _id mapping is shared with the caller)
_process_object_ids(query) ==
    IF query = Null \/ query = Dict(EmptyMap)
    THEN [raised |-> FALSE, msg |-> Null, value |-> query, caller |-> query]
    ELSE IF ~IsDict(query)
    THEN [raised |-> TRUE, msg |-> Str("object has no attribute copy"),
          value |-> Unset, caller |-> query]
    ELSE LET m == query.m
             id == IF "_id" \in DOMAIN m THEN m["_id"] ELSE Unset
         IN  IF IsStr(id)
             THEN [raised |-> FALSE, msg |-> Null,
                   value |-> IF IsValidId(id.s)
                             THEN Dict([m EXCEPT !["_id"] = ObjectId(id.s)])
                             ELSE query,
                   caller |-> query]
             ELSE IF IsDict(id) /\ "$in" \in DOMAIN id.m /\ IsItemList(id.m["$in"])
             THEN LET items == id.m["$in"].items
                      converted ==
                          Dict([m EXCEPT !["_id"] =
                             Dict([id.m EXCEPT !["$in"] =
                                ListOf([i \in DOMAIN items |-> ConvertItem(items[i])])])])
                  IN  IF \E i \in DOMAIN items :
                            IsStr(items[i]) /\ ~IsValidId(items[i].s)
                      THEN [raised |-> TRUE,
                            msg |-> Str("is not a valid ObjectId"),
                            value |-> Unset, caller |-> query]
                      ELSE [raised |-> FALSE, msg |-> Null, value |-> converted,
                            caller |-> converted]
             ELSE [raised |-> FALSE, msg |-> Null, value |-> query,
                   caller |-> query]

\* _serialize_document(doc): the values of the document itself that are
\* ObjectIds become strings, every other value is kept as it is
_serialize_document(doc) ==
    Dict([k \in DOMAIN doc.m |->
            IF IsObjectId(doc.m[k]) THEN OidStr(doc.m[k]) ELSE doc.m[k]])

_serialize_documents(cursor_or_list) ==
    [i \in DOMAIN cursor_or_list |-> _serialize_document(cursor_or_list[i])]

\* serialize_value of run_command: recursive over lists and dicts
RECURSIVE serialize_value(_)
serialize_value(value) ==
    IF IsObjectId(value) THEN OidStr(value)
    ELSE IF IsItemList(value)
    THEN ListOf([i \in DOMAIN value.items |-> serialize_value(value.items[i])])
    ELSE IF IsDict(value)
    THEN Dict([k \in DOMAIN value.m |-> serialize_value(value.m[k])])
    ELSE value

\* cursor.limit(n): at most n documents, and no limit at all when n is 0
Limit(docs, n) ==
    IF n = 0 \/ Len(docs) <= n THEN docs ELSE SubSeq(docs, 1, n)

\* one collection of the database: find raises with a message, or answers
\* with the documents that match
MaxDocs == 2

SampleDocument == Dict([name |-> Str("Ann")])

NestedIdDocument ==
    Dict([_id |-> ObjectId("5f50c31e8a91e73550a97d5f"),
          owner |-> Dict([_id |-> ObjectId("5f50c31e8a91e73550a97d5f")])])

Documents == {SampleDocument, NestedIdDocument}

SampleMessages == {"not authorized", "cursor timeout"}

Collection(raises, msg, docs) == [raises |-> raises, msg |-> msg, docs |-> docs]

CollectionStates ==
    {Collection(FALSE, "", d) : d \in UNION {[1..n -> Documents] : n \in 0..MaxDocs}}
    \cup {Collection(TRUE, m, << >>) : m \in SampleMessages}

\* find_documents(collection, filter, limit), limits being the arguments
\* cursor.limit was called with
find_documents(collection, filter, limit) ==
    LET f == _process_object_ids(filter)
    IN  IF f.raised
        THEN [raised |-> TRUE, msg |-> f.msg, value |-> << >>, limits |-> << >>]
        ELSE IF collection.raises
        THEN [raised |-> TRUE, msg |-> Str(collection.msg), value |-> << >>,
              limits |-> << limit >>]
        ELSE [raised |-> FALSE, msg |-> Null,
              value |-> _serialize_documents(Limit(collection.docs, limit)),
              limits |-> << limit >>]

(***************************************************************************)
(* MongoDBTool: what its functions return.  A call is given by the name of *)
(* the function, the filter and limit arguments, and raw, what the storage *)
(* engine answers with.                                                    *)
(***************************************************************************)
\* limit: int = 10
DefaultLimit == 10

\* the functions that return data read from the storage engine
DataFunctions ==
    {"find_documents", "find_one_document", "find_one_and_update",
     "aggregate_documents", "distinct_values", "list_indexes",
     "insert_document", "insert_many_documents", "update_one_document",
     "run_command"}

\* the functions that hand a filter of the caller to the storage engine;
\* for bulk_write it is the filter of an update or delete entry
FilterFunctions ==
    {"find_documents", "find_one_document", "count_documents",
     "distinct_values", "update_documents", "update_one_document",
     "delete_documents", "delete_one_document", "find_one_and_update",
     "bulk_write"}

\* the functions that begin with filter = self._process_object_ids(filter)
NormalizesFilter(op) ==
    op \in {"find_documents", "find_one_document", "find_one_and_update",
            "distinct_values", "update_one_document", "count_documents",
            "update_documents", "delete_documents", "delete_one_document"}

\* the limit of a call: << >> when the argument is omitted, << n >> when given
EffectiveLimit(limit) == IF limit = << >> THEN DefaultLimit ELSE limit[1]

\* cursors of up to MaxFound documents, more than the default limit
MaxFound == 11

LongCursors == {[i \in 1..n |-> SampleDocument] : n \in 0..MaxFound}

\* str(x)
PyStr(x) ==
    IF IsObjectId(x) THEN OidStr(x) ELSE IF IsStr(x) THEN x ELSE Fmt("", x)

DocumentLists == UNION {[1..n -> Documents] : n \in 0..MaxDocs}

IndexDocuments ==
    {Dict([name |-> Str("_id_")]),
     Dict([name |-> Str("owner_1"),
           partialFilterExpression |->
              Dict([owner |-> ObjectId("5f50c31e8a91e73550a97d5f")])])}

\* the _id values insert_one and insert_many report
InsertedIds == {ObjectId("5f50c31e8a91e73550a97d5f"), Str("custom"), Num}

DistinctItems == {ObjectId("5f50c31e8a91e73550a97d5f"), Str("Ann")}

\* what the storage engine may answer a call of the function with (a
\* cursor is given as the list of its documents)
RawReturns(op) ==
    CASE op = "find_documents" ->
            {ListOf(l) : l \in DocumentLists \cup LongCursors}
      [] op = "aggregate_documents" -> {ListOf(l) : l \in DocumentLists}
      [] op \in {"count_documents", "update_documents", "delete_documents",
                 "delete_one_document"} -> {Num}
      [] op \in {"find_one_document", "find_one_and_update"} ->
            {Null, Dict(EmptyMap)} \cup Documents
      [] op = "distinct_values" ->
            {ListOf(l) : l \in UNION {[1..n -> DistinctItems] : n \in 0..MaxDocs}}
      [] op = "list_indexes" ->
            {ListOf(l) : l \in UNION {[1..n -> IndexDocuments] : n \in 0..MaxDocs}}
      [] op = "insert_document" -> InsertedIds
      [] op = "insert_many_documents" ->
            {ListOf(l) : l \in UNION {[1..n -> InsertedIds] : n \in 0..MaxDocs}}
      [] op = "update_one_document" ->
            {Null, ObjectId("5f50c31e8a91e73550a97d5f")}
      [] op = "run_command" ->
            {Dict([ok |-> Num]),
             Dict([cursor |-> Dict([firstBatch |-> ListOf(<< NestedIdDocument >>)])])}
      [] OTHER -> {Null}

\* the value the function returns once the storage engine has answered raw
ToolValue(op, raw, limit) ==
    CASE op = "find_documents" ->
            ListOf(find_documents(Collection(FALSE, "", raw.items), Null,
                                  EffectiveLimit(limit)).value)
      [] op = "aggregate_documents" -> ListOf(_serialize_documents(raw.items))
      [] op \in {"find_one_document", "find_one_and_update"} ->
            IF raw \in {Null, Dict(EmptyMap)} THEN Null
            ELSE _serialize_document(raw)
      [] op = "distinct_values" -> raw
      [] op = "list_indexes" -> raw
      [] op = "insert_document" -> PyStr(raw)
      [] op = "insert_many_documents" ->
            ListOf([i \in DOMAIN raw.items |-> PyStr(raw.items[i])])
      [] op = "update_one_document" ->
            Dict([matched_count |-> Num, modified_count |-> Num,
                  upserted_id |-> IF raw = Null THEN Null ELSE PyStr(raw)])
      [] op = "run_command" -> serialize_value(raw)
      [] op = "bulk_write" ->
            Dict([inserted_count |-> Num, modified_count |-> Num,
                  deleted_count |-> Num, upserted_count |-> Num])
      [] OTHER -> raw

\* a call of one of the functions: the filter is normalized first where the
\* function does so, and an exception of the normalization leaves the function
ToolFunction(call) ==
    LET f == IF NormalizesFilter(call.op)
             THEN _process_object_ids(call.filter)
             ELSE [raised |-> FALSE, msg |-> Null, value |-> call.filter,
                   caller |-> call.filter]
    IN  IF f.raised THEN f
        ELSE [raised |-> FALSE, msg |-> Null,
              value |-> ToolValue(call.op, call.raw, call.limit),
              caller |-> f.caller,
              engineFilter |->
                 IF call.op = "distinct_values"
                       /\ call.filter \in {Null, Dict(EmptyMap)}
                 THEN Dict(EmptyMap) ELSE f.value,
              limits |->
                 IF call.op = "find_documents"
                 THEN find_documents(Collection(FALSE, "", call.raw.items), Null,
                                     EffectiveLimit(call.limit)).limits
                 ELSE << >>]

(***************************************************************************)
(* inspect_schema                                                          *)
(***************************************************************************)
MaxCollections == 2

CollectionNames == {"users", "products"}

\* the listings the database can answer list_collection_names with
Listings ==
    {l \in UNION {[1..n -> CollectionNames] : n \in 0..MaxCollections} :
        \A i, j \in DOMAIN l : i # j => l[i] # l[j]}

\* a database: list_collection_names raises or answers with a listing, and
\* each listed collection is in one of the given states
Databases(states) ==
    {[listRaises |-> TRUE, listing |-> << >>, contents |-> << >>]}
    \cup UNION {{[listRaises |-> FALSE, listing |-> l, contents |-> c] :
                    c \in [Range(l) -> states]} : l \in Listings}

\* the databases of a whole request: a collection holds at most one document
RequestDatabases ==
    Databases({Collection(FALSE, "", << SampleDocument >>),
               Collection(FALSE, "", << >>),
               Collection(TRUE, "not authorized", << >>)})

\* find_documents(collection, {}, limit=1)
SampleLimit == 1

\* sample = tool.find_documents(collection, {}, limit=1)
Sample(database, c) ==
    find_documents(database.contents[c], Dict(EmptyMap), SampleLimit)

\* the record kept for a collection, with the message of the failure left out
SampleRecord_NoMessage(sample) ==
    IF sample.raised THEN Dict([error |-> Str("")])
    ELSE IF sample.value # << >> THEN sample.value[1]
    ELSE Dict(EmptyMap)

\* sample[0] if sample else {}, and {"error": str(e)} when sampling raised
SampleRecord(sample) ==
    IF sample.raised THEN Dict([error |-> sample.msg])
    ELSE IF sample.value # << >> THEN sample.value[1]
    ELSE Dict(EmptyMap)

\* the snapshot built over the listed collections, the storage-engine calls
\* made and the limits the samples were fetched with
Snapshot(database, collections) ==
    [raised |-> FALSE, msg |-> Null,
     value |-> [collections |-> collections,
                sample_documents |->
                    [c \in Range(collections) |->
                        SampleRecord(Sample(database, c))]],
     calls |-> << "list_collection_names" >>
               \o [i \in DOMAIN collections |-> "find"],
     limits |-> [i \in DOMAIN collections |->
                    Sample(database, collections[i]).limits[1]]]

\* inspect_schema listing the collections in the reverse of the database's order
inspect_schema_Reversed(database) ==
    IF database.listRaises
    THEN [raised |-> TRUE, msg |-> Str("ServerSelectionTimeoutError"),
          value |-> Unset, calls |-> << "list_collection_names" >>,
          limits |-> << >>]
    ELSE Snapshot(database,
                  [i \in DOMAIN database.listing |->
                      database.listing[Len(database.listing) + 1 - i]])

\* collections = tool.list_collections() is outside every try: its exception
\* leaves inspect_schema
inspect_schema(database) ==
    IF database.listRaises
    THEN [raised |-> TRUE, msg |-> Str("ServerSelectionTimeoutError"),
          value |-> Unset, calls |-> << "list_collection_names" >>,
          limits |-> << >>]
    ELSE Snapshot(database, database.listing)

(***************************************************************************)
(* The model: what the language model may answer.                          *)
(***************************************************************************)
MaxStrLen == 3

\* the operation names the model may put under "tool"
ToolNames ==
    {"list_collections", "find_documents", "drop_collection", "drop_index",
     "delete_documents", "delete_one_document", "update_one_document",
     "bulk_write", "run_command", "create_index", "_process_object_ids",
     "__init__", "db", "Drop_Collection", "no_such_tool", ""}

ToolValues == {Str(n) : n \in ToolNames} \cup {Num, List}

\* the argument mappings the model may put under "args"
ArgMaps ==
    {EmptyMap,
     [name |-> Str("users")],
     [collection |-> Str("users"), filter |-> Dict(EmptyMap)],
     [collection |-> Str("users"), filter |-> Dict(EmptyMap), limit |-> Num],
     [collection |-> Str("users"), index_name |-> Str("email_1")],
     [collection |-> Str("users"), keys |-> List],
     [collection |-> Str("users"), operations |-> List],
     [collection |-> Str("users"), filter |-> Dict(EmptyMap), update |-> Dict(EmptyMap)],
     [command |-> Str("ping")],
     [command |-> Str("drop"), value |-> Str("users")],
     [command |-> Dict([drop |-> Str("users")])],
     [query |-> Dict(EmptyMap)],
     [uri |-> Str("mongodb://other"), db_name |-> Str("admin")]}

\* the documents a response may hold
DocValues ==
    {Dict([tool |-> t, args |-> Dict(a)]) : t \in ToolValues, a \in ArgMaps}
    \cup {List, Null, Dict(EmptyMap),
          Dict([tool |-> Str("x")]),
          Dict([args |-> Dict(EmptyMap)]),
          Dict([tool |-> Str("x"), args |-> List]),
          Dict([tool |-> Str("find_documents"), args |-> Null]),
          Dict([tool |-> Str("x"), args |-> Num]),
          Dict([tool |-> Str("x"), args |-> Dict(EmptyMap), note |-> Str("n")])}

StringBodies ==
    UNION {[1..n -> {BT, JSONWORD, NUMLIT}] : n \in 0..MaxStrLen}

\* JSON texts: a document, a number, or a string
JsonTexts ==
    {<< DocTok(v) >> : v \in DocValues}
    \cup {<< NUMLIT >>}
    \cup {<< QUOTE >> \o b \o << QUOTE >> : b \in StringBodies}

\* how a response carries a JSON text J
WrapForms == {"bare", "tagged", "untagged", "tagged_prose", "untagged_prose"}

Wrap(form, J) ==
    CASE form = "bare" -> J
      [] form = "tagged" -> << BT, JSONWORD, WS >> \o J \o << WS, BT >>
      [] form = "untagged" -> << BT, WS >> \o J \o << WS, BT >>
      [] form = "tagged_prose" ->
            << PROSE, WS, BT, JSONWORD, WS >> \o J \o << WS, BT, WS, PROSE >>
      [] form = "untagged_prose" ->
            << PROSE, WS, BT, WS >> \o J \o << WS, BT, WS, PROSE >>

\* responses that are no JSON text in any form
OtherTexts == {<< >>, << PROSE >>, << BT, WS, PROSE, WS, BT >>, << QUOTE, PROSE >>}

(***************************************************************************)
(* One `run` request (cli.run).                                            *)
(***************************************************************************)
VARIABLES
    pc,             \* the statement of run that executes next
    nl_query,       \* the words of the query
    schema,         \* inspect_schema's snapshot
    tool_schema,    \* build_tool_schema's capability schema
    llmForm,        \* how the model wrapped its answer (a WrapForm or "other")
    llmJ,           \* the JSON text the model answered with
    response_text,  \* response.text
    resp,           \* call_llm's return value
    parsed,         \* translate's return value
    answer,         \* what the user answered the confirmation with
    prompts,        \* confirmation prompts shown
    executeCalls,   \* calls of execute
    engineOutcome,  \* what the called function or the engine did in execute
    engineCalls,    \* storage-engine methods called, in order
    invoked,        \* the attribute of the tool that execute called
    result,         \* execute's return value
    output,         \* lines echoed
    exit_code,      \* the exit status, Running until the request ends
    db,             \* the database of the request
    findLimits,     \* the limits the storage engine's cursors were given
    stages,         \* the calls run has made, in order
    prompt,         \* the prompt sent to the model
    llmCalls,       \* calls of model.generate_content
    toolCall,       \* a call of one function of MongoDBTool on its own
    toolRet         \* what that call returned

vars ==
    << pc, nl_query, schema, tool_schema, llmForm, llmJ, response_text, resp,
       parsed, answer, prompts, executeCalls, engineOutcome, engineCalls,
       invoked, result, output, exit_code, db, findLimits, stages, prompt,
       llmCalls, toolCall, toolRet >>

\* the variables of a call of one function of MongoDBTool on its own
toolVars == << toolCall, toolRet >>

\* no exit status yet; an exit status n is held as << n >>
Running == << >>

\* sys.exit(1)
FailureExit == 1

\* the status of a command that returns
SuccessExit == 0

NlQueries == {<< >>, << "list", "collections" >>}

\* query = " ".join(nl_query)
RECURSIVE Join(_)
Join(words) ==
    IF Len(words) <= 1 THEN words
    ELSE << words[1], " " >> \o Join(Tail(words))

\* a prompt that leaves the snapshot out
construct_prompt_NoSnapshot(query, snapshot, tools) ==
    [query |-> query, schema |-> Unset, tool_schema |-> tools]

\* construct_prompt(query, schema, tool_schema): the three texts it formats
construct_prompt(query, snapshot, tools) ==
    [query |-> query, schema |-> snapshot, tool_schema |-> tools]

\* the state of run before its first statement, against one of the given
\* databases
RunState(databases) ==
    /\ nl_query \in NlQueries
    /\ db \in databases
    /\ findLimits = << >>
    /\ stages = << >>
    /\ prompt = Unset
    /\ llmCalls = 0
    /\ schema = Unset
    /\ tool_schema = << >>
    /\ llmForm = "none"
    /\ llmJ = << >>
    /\ response_text = << >>
    /\ resp = Unset
    /\ parsed = Unset
    /\ answer = "none"
    /\ prompts = 0
    /\ executeCalls = 0
    /\ engineOutcome = Unset
    /\ engineCalls = << >>
    /\ invoked = "none"
    /\ result = Unset
    /\ output = << >>
    /\ exit_code = Running

\* the start of a run request
InitRun(databases) ==
    /\ pc = "check_query"
    /\ toolCall = Unset
    /\ toolRet = Unset
    /\ RunState(databases)

Init == InitRun(RequestDatabases)

\* an except clause that shows nothing and lets run return
ExceptHandler_Silent(echoed, msg) ==
    /\ output' = output \o echoed
    /\ exit_code' = << SuccessExit >>
    /\ pc' = "done"

\* except Exception as e: echo "Error: <e>", sys.exit(1)
ExceptHandler(echoed, msg) ==
    /\ output' = output \o echoed \o << Fmt("Error: ", msg) >>
    /\ exit_code' = << FailureExit >>
    /\ pc' = "done"

\* run without the exit of its first statement
CheckQuery_NoExit ==
    /\ pc = "check_query"
    /\ pc' = "get_config"
    /\ UNCHANGED << output, exit_code, nl_query, schema, tool_schema, llmForm,
                    llmJ, response_text, resp, parsed, answer, prompts,
                    executeCalls, engineOutcome, engineCalls, invoked, result,
                    db, findLimits, stages, prompt, llmCalls, toolVars >>

\* if not nl_query: ... sys.exit(1)
CheckQuery ==
    /\ pc = "check_query"
    /\ IF nl_query = << >>
       THEN /\ output' = output \o << Str("Error: No query provided."),
                                      Str("Usage: mongo-llm run") >>
            /\ exit_code' = << FailureExit >>
            /\ pc' = "done"
       ELSE /\ pc' = "get_config"
            /\ UNCHANGED << output, exit_code >>
    /\ UNCHANGED << nl_query, schema, tool_schema, llmForm, llmJ, response_text,
                    resp, parsed, answer, prompts, executeCalls, engineOutcome,
                    engineCalls, invoked, result, db, findLimits, stages,
                    prompt, llmCalls, toolVars >>

\* config = get_config(...): raises ValueError on a missing setting
GetConfig ==
    /\ pc = "get_config"
    /\ \E missing \in BOOLEAN :
          IF missing
          THEN ExceptHandler(<< >>, Str("Missing required configuration"))
          ELSE pc' = "connect" /\ UNCHANGED << output, exit_code >>
    /\ stages' = Append(stages, "get_config")
    /\ UNCHANGED << nl_query, schema, tool_schema, llmForm, llmJ, response_text,
                    resp, parsed, answer, prompts, executeCalls, engineOutcome,
                    engineCalls, invoked, result, db, findLimits, prompt,
                    llmCalls, toolVars >>

\* tool = MongoDBTool(uri, db_name): MongoClient raises on a bad URI
Connect ==
    /\ pc = "connect"
    /\ \E bad \in BOOLEAN :
          IF bad
          THEN ExceptHandler(<< >>, Str("Invalid URI"))
          ELSE pc' = "inspect_schema" /\ UNCHANGED << output, exit_code >>
    /\ engineCalls' = engineCalls \o << "MongoClient" >>
    /\ stages' = Append(stages, "MongoDBTool")
    /\ UNCHANGED << nl_query, schema, tool_schema, llmForm, llmJ, response_text,
                    resp, parsed, answer, prompts, executeCalls, engineOutcome,
                    invoked, result, db, findLimits, prompt, llmCalls,
                    toolVars >>

\* schema = inspect_schema(tool)
InspectSchema ==
    /\ pc = "inspect_schema"
    /\ LET r == inspect_schema(db)
       IN  /\ engineCalls' = engineCalls \o r.calls
           /\ findLimits' = findLimits \o r.limits
           /\ IF r.raised
              THEN /\ ExceptHandler(<< Str("Inspecting database schema...") >>, r.msg)
                   /\ UNCHANGED schema
              ELSE /\ schema' = r.value
                   /\ output' = output \o << Str("Inspecting database schema...") >>
                   /\ pc' = "call_llm"
                   /\ UNCHANGED exit_code
    /\ stages' = Append(stages, "inspect_schema")
    /\ UNCHANGED << nl_query, tool_schema, llmForm, llmJ, response_text, resp,
                    parsed, answer, prompts, executeCalls, engineOutcome, invoked,
                    result, db, prompt, llmCalls, toolVars >>

\* resp = llm_orchestrator.call_llm(query, schema, api_key)
CallLlm ==
    /\ pc = "call_llm"
    /\ tool_schema' = build_tool_schema
    /\ prompt' = construct_prompt(Join(nl_query), schema, build_tool_schema)
    /\ llmCalls' = llmCalls + 1
    /\ stages' = Append(stages, "call_llm")
    /\ \E unreachable \in BOOLEAN, form \in WrapForms \cup {"other"} :
        \E J \in IF form = "other" THEN OtherTexts ELSE JsonTexts :
          LET text == IF form = "other" THEN J ELSE Wrap(form, J)
              r == ParseResponse(text)
          IN  IF unreachable
              THEN /\ form = "other" /\ J = << >>
                   /\ ExceptHandler(<< Str("Processing your query...") >>,
                                    Str("503 service unavailable"))
                   /\ UNCHANGED << llmForm, llmJ, response_text, resp >>
              ELSE /\ llmForm' = form
                   /\ llmJ' = J
                   /\ response_text' = text
                   /\ IF r.raised
                      THEN /\ ExceptHandler(<< Str("Processing your query...") >>, r.msg)
                           /\ UNCHANGED resp
                      ELSE /\ resp' = r.value
                           /\ output' = output \o << Str("Processing your query...") >>
                           /\ pc' = "translate"
                           /\ UNCHANGED exit_code
    /\ UNCHANGED << nl_query, schema, parsed, answer, prompts, executeCalls,
                    engineOutcome, engineCalls, invoked, result, db, findLimits,
                    toolVars >>

\* parsed = translate(resp)
Translate ==
    /\ pc = "translate"
    /\ LET r == translate(resp)
       IN  IF r.raised
           THEN ExceptHandler(<< >>, r.msg) /\ UNCHANGED parsed
           ELSE /\ parsed' = r.value
                /\ pc' = "confirmation"
                /\ UNCHANGED << output, exit_code >>
    /\ stages' = Append(stages, "translate")
    /\ UNCHANGED << nl_query, schema, tool_schema, llmForm, llmJ, response_text,
                    resp, answer, prompts, executeCalls, engineOutcome,
                    engineCalls, invoked, result, db, findLimits, prompt,
                    llmCalls, toolVars >>

\* echo "Executing: <tool>"; with confirmation(parsed.tool, parsed.args):
\* click.Abort is a RuntimeError, so the except clause of run catches it
Confirmation ==
    /\ pc = "confirmation"
    /\ \E a \in Answers :
          LET g == confirmation(parsed.tool, a)
              executing == << Fmt("Executing: ", parsed.tool) >>
          IN  /\ g.prompted \/ a = ""
              /\ answer' = IF g.prompted THEN a ELSE answer
              /\ prompts' = IF g.prompted THEN prompts + 1 ELSE prompts
              /\ IF g.outcome = "yield"
                 THEN /\ output' = output \o executing \o g.echoed
                      /\ pc' = "execute"
                      /\ UNCHANGED exit_code
                 ELSE ExceptHandler(executing \o g.echoed,
                                    IF g.outcome = "Abort" THEN Str("")
                                    ELSE Str("unhashable type"))
    /\ stages' = Append(stages, "confirmation")
    /\ UNCHANGED << nl_query, schema, tool_schema, llmForm, llmJ, response_text,
                    resp, parsed, executeCalls, engineOutcome, engineCalls,
                    invoked, result, db, findLimits, prompt, llmCalls,
                    toolVars >>

\* result = execute(tool, parsed)
Execute ==
    /\ pc = "execute"
    /\ \E eng \in EngineOutcomes :
          LET r == execute(parsed, eng)
          IN  /\ engineOutcome' = eng
              /\ executeCalls' = executeCalls + 1
              /\ engineCalls' = engineCalls \o r.calls
              /\ invoked' = r.invoked
              /\ IF r.raised
                 THEN ExceptHandler(<< >>, r.msg) /\ UNCHANGED result
                 ELSE /\ result' = r.envelope
                      /\ pc' = "format_print"
                      /\ UNCHANGED << output, exit_code >>
    /\ stages' = Append(stages, "execute")
    /\ UNCHANGED << nl_query, schema, tool_schema, llmForm, llmJ, response_text,
                    resp, parsed, answer, prompts, db, findLimits, prompt,
                    llmCalls, toolVars >>

\* formatter.print(result): print_error for a failed envelope, a notice for
\* no data, the data otherwise
format_print(r) ==
    IF ~r.success THEN << Fmt("Error: ", r.error) >>
    ELSE IF r.data = Null
    THEN << Str("Operation completed successfully with no data.") >>
    ELSE << Fmt("", r.data) >>

\* format_print(result), then run returns
FormatPrint ==
    /\ pc = "format_print"
    /\ output' = output \o format_print(result)
    /\ exit_code' = << SuccessExit >>
    /\ pc' = "done"
    /\ stages' = Append(stages, "format_print")
    /\ UNCHANGED << nl_query, schema, tool_schema, llmForm, llmJ, response_text,
                    resp, parsed, answer, prompts, executeCalls, engineOutcome,
                    engineCalls, invoked, result, db, findLimits, prompt,
                    llmCalls, toolVars >>

Next ==
    \/ CheckQuery
    \/ GetConfig
    \/ Connect
    \/ InspectSchema
    \/ CallLlm
    \/ Translate
    \/ Confirmation
    \/ Execute
    \/ FormatPrint

Spec == Init /\ [][Next]_vars

\* a request up to the end of inspect_schema, against every database whose
\* collections hold up to MaxDocs documents
InitInspect == InitRun(Databases(CollectionStates))

NextInspect ==
    \/ CheckQuery
    \/ GetConfig
    \/ Connect
    \/ InspectSchema

SpecInspect == InitInspect /\ [][NextInspect]_vars

(***************************************************************************)
(* One call of a function of MongoDBTool on its own, over the filters and  *)
(* the answers of the storage engine below.                                *)
(***************************************************************************)
MaxIn == 2

\* the elements of an _id.$in list
InItems == {Str(s) : s \in IdStrings} \cup {Num}

InLists == UNION {[1..n -> InItems] : n \in 0..MaxIn}

In(l) == [k \in {"$in"} |-> l]

Filters ==
    {Null, Dict(EmptyMap), Dict([name |-> Str("Ann")]), Dict([_id |-> Num]),
     Dict([_id |-> Dict(In(Str("5f50c31e8a91e73550a97d5f")))])}
    \cup {Dict([_id |-> Str(s)]) : s \in IdStrings}
    \cup {Dict([_id |-> Str(s), name |-> Str("Ann")]) : s \in IdStrings}
    \cup {Dict([_id |-> Dict(In(ListOf(l)))]) : l \in InLists}
    \cup {Dict([_id |-> Dict(In(ListOf(l))), name |-> Str("Ann")]) : l \in InLists}

\* the filters given to the functions that read data
CallFilters ==
    {Dict(EmptyMap), Dict([_id |-> Str("5f50c31e8a91e73550a97d5f")]),
     Dict([_id |-> Dict(In(ListOf(<< Str("invalid-object-id") >>)))])}

\* the limit arguments find_documents is called with
MaxLimit == 2

GivenLimits == {<< >>} \cup {<< n >> : n \in 0..MaxLimit}

ToolFunctions == DataFunctions \cup FilterFunctions

ToolCalls ==
    {[op |-> "_process_object_ids", filter |-> f, raw |-> Null,
      limit |-> << >>] : f \in Filters}
    \cup UNION {{[op |-> op, filter |-> f, raw |-> r, limit |-> l] :
                    f \in CallFilters, r \in RawReturns(op),
                    l \in IF op = "find_documents" THEN GivenLimits
                          ELSE {<< >>}} : op \in ToolFunctions}

InitTool ==
    /\ pc = "tool"
    /\ toolCall \in ToolCalls
    /\ toolRet = Unset
    /\ RunState({[listRaises |-> FALSE, listing |-> << >>, contents |-> << >>]})
    /\ nl_query = << >>
    /\ schema = Unset
    /\ tool_schema = << >>
    /\ llmForm = "none"
    /\ llmJ = << >>
    /\ response_text = << >>
    /\ resp = Unset
    /\ parsed = Unset
    /\ answer = "none"
    /\ prompts = 0
    /\ executeCalls = 0
    /\ engineOutcome = Unset
    /\ engineCalls = << >>
    /\ invoked = "none"
    /\ result = Unset
    /\ output = << >>
    /\ exit_code = Running

runVars ==
    << nl_query, schema, tool_schema, llmForm, llmJ, response_text, resp,
       parsed, answer, prompts, executeCalls, engineOutcome, engineCalls,
       invoked, result, output, exit_code, db, findLimits, stages, prompt,
       llmCalls >>

\* self._process_object_ids(query)
ProcessObjectIds ==
    /\ pc = "tool"
    /\ toolCall.op = "_process_object_ids"
    /\ toolRet' = _process_object_ids(toolCall.filter)
    /\ pc' = "tool_done"
    /\ UNCHANGED << toolCall, runVars >>

\* a call of one of the functions that return data or take a filter
CallFunction ==
    /\ pc = "tool"
    /\ toolCall.op \in ToolFunctions
    /\ toolRet' = ToolFunction(toolCall)
    /\ pc' = "tool_done"
    /\ UNCHANGED << toolCall, runVars >>

NextTool ==
    \/ ProcessObjectIds
    \/ CallFunction

SpecTool == InitTool /\ [][NextTool]_vars

(***************************************************************************)
(* The parsing of one response text on its own, over texts that hold       *)
(* several fenced blocks.                                                  *)
(***************************************************************************)
MaxBlocks == 2

ListCall == Dict([tool |-> Str("list_collections"), args |-> Dict(EmptyMap)])

DropCall ==
    Dict([tool |-> Str("drop_collection"),
          args |-> Dict([name |-> Str("users")])])

\* what a fenced block may hold: a JSON document or prose
BlockBodies == {<< DocTok(ListCall) >>, << DocTok(DropCall) >>, << PROSE >>}

\* a fenced block, tagged json or not
Block(tagged, body) ==
    (IF tagged THEN << BT, JSONWORD, WS >> ELSE << BT, WS >>)
    \o body \o << WS, BT >>

Blocks == {Block(t, b) : t \in BOOLEAN, b \in BlockBodies}

RECURSIVE JoinBlocks(_, _)
JoinBlocks(blocks, glue) ==
    IF Len(blocks) = 1 THEN blocks[1]
    ELSE blocks[1] \o glue \o JoinBlocks(Tail(blocks), glue)

\* texts of one to MaxBlocks fenced blocks, with or without prose before
\* the first and between them
BlockTexts ==
    {lead \o JoinBlocks(bs, glue) :
        lead \in {<< >>, << PROSE, WS >>},
        glue \in {<< WS >>, << WS, PROSE, WS >>},
        bs \in UNION {[1..n -> Blocks] : n \in 1..MaxBlocks}}

InitParse ==
    /\ pc = "parse"
    /\ toolCall = Unset
    /\ toolRet = Unset
    /\ RunState({[listRaises |-> FALSE, listing |-> << >>, contents |-> << >>]})
    /\ nl_query = << >>

\* response.text is one of the texts; the try block of call_llm on it: the
\* value is kept in resp, the message of the ValueError in output
ParseText ==
    /\ pc = "parse"
    /\ \E text \in BlockTexts :
          LET r == ParseResponse(text)
          IN  /\ response_text' = text
              /\ resp' = IF r.raised THEN Unset ELSE r.value
              /\ output' = IF r.raised THEN << r.msg >> ELSE << >>
    /\ pc' = "parsed"
    /\ UNCHANGED << nl_query, schema, tool_schema, llmForm, llmJ, parsed,
                    answer, prompts, executeCalls, engineOutcome, engineCalls,
                    invoked, result, exit_code, db, findLimits, stages, prompt,
                    llmCalls, toolVars >>

NextParse == ParseText

SpecParse == InitParse /\ [][NextParse]_vars

(***************************************************************************)
(* Properties                                                              *)
(***************************************************************************)
\* the storage-engine methods that write, delete or drop
EngineWrites ==
    {"drop", "drop_index", "delete_many", "delete_one", "update_many",
     "update_one", "insert_one", "insert_many", "bulk_write",
     "create_collection", "create_index", "rename", "find_one_and_update",
     "command"}

\* the answers that are no explicit yes
Declined == {"no", "", "EOF"}

Resolved == parsed # Unset

ResolvedName(names) == Resolved /\ IsStr(parsed.tool) /\ parsed.tool.s \in names

\* the request is past the confirmation gate
PastGate == Resolved /\ pc # "confirmation"

\* C1: in a request whose resolved call names drop_collection, drop_index or
\* delete_documents, an answer of no, the empty default or no input at all
\* means execute is never invoked and no storage-engine write, delete or
\* drop method is called; an explicit yes means execute is invoked exactly
\* once (it is pending while run is at the call, and made once after it).
C1_GateGuardsExecute ==
    ResolvedName({"drop_collection", "drop_index", "delete_documents"}) /\ PastGate =>
        /\ answer \in Declined \cup {"yes"}
        /\ answer \in Declined =>
              /\ pc = "done"
              /\ executeCalls = 0
              /\ result = Unset
              /\ \A i \in DOMAIN engineCalls : engineCalls[i] \notin EngineWrites
        /\ answer = "yes" =>
              /\ pc \in {"execute", "format_print", "done"}
              /\ executeCalls = (IF pc = "execute" THEN 0 ELSE 1)

C1_Witness ==
    /\ pc = "done"
    /\ ResolvedName({"delete_documents"})
    /\ answer = "no"
    /\ executeCalls = 0

\* C2: the destructive set is exactly drop_collection, drop_index and
\* delete_documents.  A prompt is shown only for these three; for each of
\* them the prompt is shown once, before any execution, and execution
\* follows only a yes; for every other operation name (a string, or any
\* other hashable value under "tool") there is no prompt and the request
\* goes straight to execute.  (A list or mapping under "tool" is no name:
\* the membership test raises on it, with no prompt and no execution.)
C2_DestructiveSetExact ==
    /\ prompts > 0 =>
          ResolvedName({"drop_collection", "drop_index", "delete_documents"})
    /\ ResolvedName({"drop_collection", "drop_index", "delete_documents"}) /\ PastGate =>
          /\ prompts = 1
          /\ executeCalls > 0 => answer = "yes"
    /\ (/\ PastGate
        /\ Hashable(parsed.tool)
        /\ ~ResolvedName({"drop_collection", "drop_index", "delete_documents"})) =>
          /\ prompts = 0
          /\ answer = "none"
          /\ pc \in {"execute", "format_print", "done"}
          /\ executeCalls = (IF pc = "execute" THEN 0 ELSE 1)

C2_Witness ==
    /\ pc = "done"
    /\ ResolvedName({"delete_one_document"})
    /\ prompts = 0
    /\ executeCalls = 1
    /\ "delete_one" \in Range(engineCalls)

IsErrorLine(line) == line.kind = "str" /\ line.s = "Error: "

\* C3: a request that ends because the user declined the confirmation shows
\* an "Operation aborted." notice, does not end with the exit status of a
\* failed request and reports no "Error".
C3_AbortDistinctFromFailure ==
    (pc = "done" /\ answer \in Declined) =>
        /\ Str("Operation aborted.") \in Range(output)
        /\ exit_code # << FailureExit >>
        /\ \A i \in DOMAIN output : ~IsErrorLine(output[i])

ValidationMessages ==
    {Str("Expected a dictionary response"),
     Str("Missing 'tool' field in LLM response"),
     Str("Missing 'args' field in LLM response"),
     Str("Expected 'args' to be a dictionary")}

\* the four conditions of the claim, on the value call_llm returned
Malformed(raw) ==
    \/ ~IsDict(raw)
    \/ "tool" \notin DOMAIN raw.m
    \/ "args" \notin DOMAIN raw.m
    \/ ~IsDict(raw.m["args"])

\* C4: translate(raw) fails with a validation error exactly when raw is not
\* a mapping, or has no "tool", or has no "args", or its "args" is not a
\* mapping; otherwise it returns a call whose operation is raw["tool"] and
\* whose arguments are raw["args"].
C4_TranslateExact ==
    (resp # Unset /\ pc # "translate") =>
        IF Malformed(resp)
        THEN /\ parsed = Unset
             /\ pc = "done"
             /\ exit_code = << FailureExit >>
             /\ \E m \in ValidationMessages :
                    output[Len(output)] = Fmt("Error: ", m)
        ELSE /\ parsed # Unset
             /\ parsed.tool = resp.m["tool"]
             /\ parsed.args = resp.m["args"]

C4_Witness ==
    /\ pc = "done"
    /\ resp = Dict([tool |-> Str("x"), args |-> List])
    /\ parsed = Unset
    /\ output[Len(output)] = Fmt("Error: ", Str("Expected 'args' to be a dictionary"))

\* the names the capability schema lists
Registry == {tool_schema[i].name : i \in DOMAIN tool_schema}

\* C5: every call translate returns has a non-empty string as its operation
\* and a mapping as its arguments.
C5_ResolvedCallWellFormed ==
    Resolved => NonEmptyStr(parsed.tool) /\ IsDict(parsed.args)

\* C6: every envelope execute returns satisfies: success implies error is
\* null; failure implies data is null and error is a non-empty string
\* (stated here for the calls that name a registered operation).
C6_EnvelopeInvariant ==
    (result # Unset /\ ResolvedName(Registry)) =>
        /\ result.success => result.error = Null
        /\ ~result.success => result.data = Null /\ NonEmptyStr(result.error)

\* execute called a function of the tool that called the storage engine
EngineReached == invoked \in Range(ClassFunctions) /\ EngineMethod(invoked) # "none"

\* C7: execute never raises: once called it has returned an envelope and
\* run goes on to the renderer; an exception with message m raised by the
\* invoked operation or the storage engine yields {success: false,
\* error: m, data: null}, a normal return r yields {success: true, data: r,
\* error: null}.
C7_ExecuteNeverRaises ==
    executeCalls > 0 =>
        /\ result # Unset
        /\ result.success \in BOOLEAN
        /\ pc \in {"format_print", "done"}
        /\ result.success => result.error = Null
        /\ ~result.success => result.data = Null /\ result.error.kind = "str"
        /\ (EngineReached /\ engineOutcome.raises) =>
              result = Envelope(FALSE, Null, Str(engineOutcome.msg))
        /\ (EngineReached /\ ~engineOutcome.raises) =>
              result = Envelope(TRUE,
                                IF ReturnsNone(invoked) THEN Null ELSE engineOutcome.ret,
                                Null)

C7_Witness ==
    /\ executeCalls = 1
    /\ pc = "format_print"
    /\ EngineReached
    /\ engineOutcome.raises
    /\ result = Envelope(FALSE, Null, Str("ns not found"))

\* C8: for every operation name that is not in the registry, execute
\* returns exactly {success: false, data: null, error: "Unknown method:
\* <name>"} and invokes nothing on the tool or the storage engine.
C8_UnknownOperation ==
    (executeCalls > 0 /\ IsStr(parsed.tool) /\ parsed.tool.s \notin Registry) =>
        /\ result = Envelope(FALSE, Null, Fmt("Unknown method: ", parsed.tool))
        /\ invoked = "none"

\* the names execute resolves to something it then calls
Dispatchable ==
    {n \in ToolNames \cup Range(ClassFunctions) : GetAttr(Str(n)) = "function"}

\* the parameter names an entry lists, and those it marks required
ListedNames(entry) == {entry.parameters[i].name : i \in DOMAIN entry.parameters}

ListedRequired(entry) ==
    {entry.parameters[i].name :
        i \in {j \in DOMAIN entry.parameters : entry.parameters[j].required}}

\* C9: the capability schema has exactly one entry per operation execute
\* can dispatch and none for anything else, and the parameters each entry
\* lists, with their required status, are those the dispatch target
\* accepts: a call supplying exactly the listed names binds, and leaving a
\* name out fails to bind exactly when the entry marks it required.
C9_SchemaMatchesDispatch ==
    tool_schema # << >> =>
        /\ \A i, j \in DOMAIN tool_schema :
              tool_schema[i].name = tool_schema[j].name => i = j
        /\ Registry = Dispatchable
        /\ \A i \in DOMAIN tool_schema :
              LET e == tool_schema[i]
              IN  /\ BindOk(e.name, ListedNames(e))
                  /\ \A k \in ListedNames(e) :
                        (k \in ListedRequired(e)) <=> ~BindOk(e.name, ListedNames(e) \ {k})

\* C10: for every JSON text J, the response that is J alone, J in a
\* json-tagged fence and J in an untagged fence, with or without prose
\* around the fence, are all parsed by call_llm to the same value, the
\* value of J.
C10_FenceEquivalence ==
    llmForm \in WrapForms =>
        /\ \A f \in WrapForms :
              ParseResponse(Wrap(f, llmJ)) =
                 [raised |-> FALSE, value |-> JsonLoads(llmJ).value, msg |-> Null]
        /\ pc # "done" => resp = JsonLoads(llmJ).value


(***************************************************************************)
(* call_llm: failures                                                      *)
(***************************************************************************)
\* the model has answered and its text, fences stripped, is no JSON document
Unparseable ==
    llmForm # "none" /\ ~JsonLoads(StripFences(response_text)).ok

\* C11: whenever the response text, after the optional fence stripping,
\* cannot be parsed as JSON, call_llm raises the failure whose message
\* carries response.text as the model sent it (run echoes it and exits 1),
\* nothing is returned, and the model was called once and no more.
C11_ParseFailureCarriesRawText ==
    Unparseable =>
        /\ resp = Unset
        /\ pc = "done"
        /\ exit_code = << FailureExit >>
        /\ output[Len(output)] =
              Fmt("Error: ", Fmt("Failed to parse LLM response: ",
                                 Text(response_text)))
        /\ llmCalls = 1
        /\ "translate" \notin Range(stages)

\* a fenced answer that does not parse: the stripped text differs from the raw
C11_Witness ==
    /\ Unparseable
    /\ StripFences(response_text) # response_text
    /\ llmCalls = 1

(***************************************************************************)
(* inspect_schema                                                          *)
(***************************************************************************)
InspectCalled == "inspect_schema" \in Range(stages)

InspectReturned == schema # Unset

\* C12: inspect_schema never raises: once it has been called it has returned
\* a snapshot, whatever the database did (a failing listing included).
C12_InspectNeverRaises == InspectCalled => InspectReturned

\* what the sampling of collection c alone amounts to
OwnRecord(c) ==
    LET col == db.contents[c]
    IN  IF col.raises THEN Dict([error |-> Str(col.msg)])
        ELSE IF col.docs = << >> THEN Dict(EmptyMap)
        ELSE _serialize_document(col.docs[1])

\* C13: a failure sampling collection c with message m is recorded as
\* {"error": m} under c and nothing else changes: every listed collection is
\* sampled once and its record depends on that collection alone.
C13_SamplingFailureIsLocal ==
    InspectReturned =>
        /\ \A c \in Range(db.listing) :
              /\ c \in DOMAIN schema.sample_documents
              /\ db.contents[c].raises =>
                    schema.sample_documents[c] =
                        Dict([error |-> Str(db.contents[c].msg)])
              /\ schema.sample_documents[c] = OwnRecord(c)
        /\ Len(findLimits) = Len(db.listing)

\* a failing collection listed before one that holds a document, both kept
C13_Witness ==
    /\ InspectReturned
    /\ Len(db.listing) = 2
    /\ db.contents[db.listing[1]].raises
    /\ db.contents[db.listing[1]].msg = "cursor timeout"
    /\ db.contents[db.listing[2]].docs # << >>
    /\ schema.sample_documents[db.listing[2]] = SampleDocument

\* C14: the snapshot lists the collections as the database listed them, in
\* that order; sample_documents has exactly the listed names as keys; every
\* sample is fetched with limit 1 and is the first document returned, or the
\* empty record when there is none.
C14_SnapshotFollowsListing ==
    InspectReturned =>
        /\ schema.collections = db.listing
        /\ DOMAIN schema.sample_documents = Range(db.listing)
        /\ DOMAIN findLimits = DOMAIN db.listing
        /\ \A i \in DOMAIN findLimits : findLimits[i] = 1
        /\ \A c \in Range(db.listing) :
              ~db.contents[c].raises =>
                 schema.sample_documents[c] =
                    IF db.contents[c].docs = << >> THEN Dict(EmptyMap)
                    ELSE _serialize_document(db.contents[c].docs[1])

\* products listed before users, the first holding two different documents
C14_Witness ==
    /\ InspectReturned
    /\ db.listing = << "users", "products" >>
    /\ db.contents["users"].docs = << NestedIdDocument, SampleDocument >>
    /\ db.contents["products"].docs = << >>
    /\ schema.collections = << "users", "products" >>

(***************************************************************************)
(* Identifier normalization and serialization                              *)
(***************************************************************************)
Normalized == toolRet # Unset /\ toolCall.op = "_process_object_ids"

\* the filter of the call has a top-level _id that is a string
StringId ==
    /\ IsDict(toolCall.filter)
    /\ "_id" \in DOMAIN toolCall.filter.m
    /\ IsStr(toolCall.filter.m["_id"])

\* no exception, the same keys, and every key but _id with its value
KeepsOtherKeys ==
    /\ ~toolRet.raised
    /\ IsDict(toolRet.value)
    /\ DOMAIN toolRet.value.m = DOMAIN toolCall.filter.m
    /\ \A k \in DOMAIN toolCall.filter.m \ {"_id"} :
          toolRet.value.m[k] = toolCall.filter.m[k]

\* C15 as stated: a valid 24-hex-digit string _id becomes the ObjectId whose
\* string form is that same string; an invalid one is returned unchanged
\* without an exception; every other key is unchanged.
C15_StringIdNormalized ==
    (Normalized /\ StringId) =>
        /\ KeepsOtherKeys
        /\ IF IsValidId(toolCall.filter.m["_id"].s)
           THEN /\ IsObjectId(toolRet.value.m["_id"])
                /\ OidStr(toolRet.value.m["_id"]) = toolCall.filter.m["_id"]
           ELSE toolRet.value.m["_id"] = toolCall.filter.m["_id"]

\* C15 amended: the string form of the ObjectId is the string in lower case,
\* which is the string itself only when it has no upper-case digit.
C15_StringIdNormalizedLower ==
    (Normalized /\ StringId) =>
        /\ KeepsOtherKeys
        /\ IF IsValidId(toolCall.filter.m["_id"].s)
           THEN /\ IsObjectId(toolRet.value.m["_id"])
                /\ OidStr(toolRet.value.m["_id"]) =
                      Str(Lower(toolCall.filter.m["_id"].s))
           ELSE toolRet.value.m["_id"] = toolCall.filter.m["_id"]

\* an upper-case identifier next to another key has been normalized
C15_Witness ==
    /\ Normalized
    /\ toolCall.filter =
          Dict([_id |-> Str("5F50C31E8A91E73550A97D5F"), name |-> Str("Ann")])
    /\ IsObjectId(toolRet.value.m["_id"])

\* the filter of the call has an _id mapping whose $in is a list
InListId ==
    /\ IsDict(toolCall.filter)
    /\ "_id" \in DOMAIN toolCall.filter.m
    /\ IsDict(toolCall.filter.m["_id"])
    /\ "$in" \in DOMAIN toolCall.filter.m["_id"].m
    /\ IsItemList(toolCall.filter.m["_id"].m["$in"])

\* C16: in an _id.$in list every valid identifier string is converted, the
\* list keeps its length and order, and an invalid identifier string is
\* passed through unconverted with no exception raised.
C16_InListNormalized ==
    (Normalized /\ InListId) =>
        /\ ~toolRet.raised
        /\ LET old == toolCall.filter.m["_id"].m["$in"].items
               new == toolRet.value.m["_id"].m["$in"].items
           IN  /\ Len(new) = Len(old)
               /\ \A i \in DOMAIN old :
                     IF IsStr(old[i]) /\ IsValidId(old[i].s)
                     THEN new[i] = ObjectId(old[i].s)
                     ELSE new[i] = old[i]

RECURSIVE HasObjectId(_)
HasObjectId(v) ==
    \/ IsObjectId(v)
    \/ IsItemList(v) /\ \E i \in DOMAIN v.items : HasObjectId(v.items[i])
    \/ IsDict(v) /\ \E k \in DOMAIN v.m : HasObjectId(v.m[k])

\* C17: the data returned by find_documents, find_one_document,
\* find_one_and_update, aggregate_documents, distinct_values, list_indexes,
\* insert_document, insert_many_documents, update_one_document and
\* run_command holds no ObjectId at any nesting depth.
C17_NoObjectIdReturned ==
    (toolRet # Unset /\ toolCall.op \in DataFunctions /\ ~toolRet.raised) =>
        ~HasObjectId(toolRet.value)

(***************************************************************************)
(* execute: argument binding                                               *)
(***************************************************************************)
\* the parameters a function declares, and those it declares with no default
\* (a **kwargs parameter is declared but never required)
Declared(name) == {p.name : p \in Range(Signature(name))}

Required(name) ==
    {p.name : p \in {q \in Range(Signature(name)) :
                        q.kind = "pos" /\ ~q.hasDefault}}

\* the resolved arguments omit a required parameter of the operation or hold
\* a name the operation does not declare
BadArguments ==
    \/ ~(Required(parsed.tool.s) \subseteq DOMAIN parsed.args.m)
    \/ ~(DOMAIN parsed.args.m \subseteq Declared(parsed.tool.s))

\* C18: for a registered operation and arguments that omit a required
\* parameter or hold an undeclared name, execute returns a failed envelope
\* with a non-empty error, and neither the operation nor the storage engine
\* is called.
C18_BadArgumentsRejected ==
    (executeCalls > 0 /\ ResolvedName(Registry) /\ BadArguments) =>
        /\ result # Unset
        /\ ~result.success
        /\ NonEmptyStr(result.error)
        /\ invoked = "none"
        /\ engineCalls = << "MongoClient" >> \o inspect_schema(db).calls

(***************************************************************************)
(* run: the order of its stages                                            *)
(***************************************************************************)
\* the calls of run in the order of its statements
StageOrder ==
    << "get_config", "MongoDBTool", "inspect_schema", "call_llm", "translate",
       "confirmation", "execute", "format_print" >>

\* the stages made so far are the first stages of StageOrder, each once
InOrder ==
    /\ Len(stages) <= Len(StageOrder)
    /\ \A i \in DOMAIN stages : stages[i] = StageOrder[i]

\* each stage was given what the stage before it returned
Chained ==
    /\ prompt # Unset =>
          /\ schema # Unset
          /\ prompt.query = Join(nl_query)
          /\ prompt.schema = schema
    /\ parsed # Unset =>
          /\ resp # Unset
          /\ parsed.tool = resp.m["tool"]
          /\ parsed.args = resp.m["args"]
    /\ result # Unset =>
          /\ parsed # Unset
          /\ result = execute(parsed, engineOutcome).envelope
    /\ "format_print" \in Range(stages) =>
          /\ result # Unset
          /\ << output[Len(output)] >> = format_print(result)

\* the request is over, its call was resolved, names no destructive
\* operation, and nothing failed
PlainRunDone ==
    /\ pc = "done"
    /\ Resolved
    /\ Hashable(parsed.tool)
    /\ ~(IsStr(parsed.tool) /\ parsed.tool.s \in DESTRUCTIVE_OPERATIONS)
    /\ result # Unset => result.success

\* C19: in every request the stages occur in the fixed order inspection,
\* model call, translate, gate, execute, render, each at most once and each
\* given the output of the stage before it; a request with a non-destructive
\* operation and no failure runs each exactly once and exits with status 0.
C19_StagesInOrder ==
    /\ InOrder
    /\ Chained
    /\ PlainRunDone =>
          /\ stages = StageOrder
          /\ prompts = 0
          /\ llmCalls = 1
          /\ executeCalls = 1
          /\ exit_code = << SuccessExit >>

\* "list collections" resolved to list_collections and carried out
C19_Witness ==
    /\ PlainRunDone
    /\ parsed.tool = Str("list_collections")
    /\ result # Unset
    /\ result.success
    /\ stages = StageOrder
    /\ exit_code = << SuccessExit >>

\* C20: a request with no query words ends at once with exit status 1 and
\* the message "Error: No query provided." and has not loaded the
\* configuration, connected to the database, called the model or the executor.
C20_NoQueryExits ==
    nl_query = << >> =>
        /\ pc \in {"check_query", "done"}
        /\ stages = << >>
        /\ engineCalls = << >>
        /\ llmCalls = 0
        /\ executeCalls = 0
        /\ pc = "done" =>
              /\ exit_code = << FailureExit >>
              /\ output[1] = Str("Error: No query provided.")

\* the request without a query has ended
C20_Witness ==
    /\ nl_query = << >>
    /\ pc = "done"
    /\ exit_code = << FailureExit >>
    /\ Len(output) = 2

(***************************************************************************)
(* find_documents: the limit                                               *)
(***************************************************************************)
FindReturned ==
    toolRet # Unset /\ toolCall.op = "find_documents" /\ ~toolRet.raised

\* C21: find_documents returns at most limit documents for every limit it
\* is given and at most 10 when the limit is omitted, and the limit it hands
\* to the storage engine is the given (or default) value.
C21_FindBoundedByLimit ==
    FindReturned =>
        /\ toolCall.limit # << >> =>
              /\ Len(toolRet.value.items) <= toolCall.limit[1]
              /\ toolRet.limits = << toolCall.limit[1] >>
        /\ toolCall.limit = << >> =>
              /\ Len(toolRet.value.items) <= 10
              /\ toolRet.limits = << 10 >>

(***************************************************************************)
(* The confirmation gate and the whole registry                            *)
(***************************************************************************)
\* what the request has done to the database: the effect of the function
\* execute called, when the storage engine carried the call out
Effect ==
    IF result # Unset /\ result.success /\ invoked \in Range(ClassFunctions)
       /\ EngineMethod(invoked) # "none"
    THEN EngineEffect(invoked, parsed.args.m)
    ELSE "none"

\* C22: in no request is a collection dropped, an index dropped or a set of
\* documents deleted in the storage engine unless the user answered the
\* confirmation of that request with an explicit yes, whatever operation the
\* model named (run_command and bulk_write included).
C22_GateNotBypassable ==
    Effect \in {"collection dropped", "index dropped", "documents deleted"} =>
        /\ prompts = 1
        /\ answer = "yes"

(***************************************************************************)
(* call_llm: several fenced blocks                                         *)
(***************************************************************************)
\* the text between the first fence of s and the fence after it, without
\* the json tag of the opening fence
FirstFenced(s) ==
    LET open == Find(s, << BT >>)
        rest == SubSeq(s, open + 1, Len(s))
        close == Find(rest, << BT >>)
        inner == SubSeq(rest, 1, close - 1)
    IN  IF inner # << >> /\ inner[1] = JSONWORD THEN Tail(inner) ELSE inner

\* C23: of a text with more than one fenced block, tagged json or not,
\* call_llm parses the content between the first opening fence and the next
\* closing fence and nothing else: it returns the value of that content, or
\* fails when that content is no JSON.
C23_FirstBlockOnly ==
    pc = "parsed" =>
        LET first == JsonLoads(FirstFenced(response_text))
        IN  IF first.ok THEN resp = first.value /\ output = << >>
            ELSE resp = Unset /\ output # << >>

(***************************************************************************)
(* Identifier normalization before the storage engine                      *)
(***************************************************************************)
\* a call of a function that hands a filter to the storage engine has
\* reached the engine
FilterReachedEngine ==
    /\ toolRet # Unset
    /\ toolCall.op \in FilterFunctions
    /\ ~toolRet.raised

\* C24: every function that hands a filter of the caller to the storage
\* engine normalizes it first: a valid identifier string under _id never
\* reaches the storage engine as a string.
C24_FilterNormalizedBeforeEngine ==
    (FilterReachedEngine /\ StringId
        /\ IsValidId(toolCall.filter.m["_id"].s)) =>
        /\ IsObjectId(toolRet.engineFilter.m["_id"])
        /\ toolRet.engineFilter = _process_object_ids(toolCall.filter).value

\* C26: _process_object_ids never modifies the filter of its caller: after
\* the call the caller's mapping, its nested _id mapping and the $in list
\* are what they were before.
C26_CallerFilterUnchanged ==
    Normalized => toolRet.caller = toolCall.filter

(***************************************************************************)
(* run: failures and the exit status                                       *)
(***************************************************************************)
\* call_llm was called and returned nothing: the service was unreachable or
\* its answer did not parse
ModelCallFailed == "call_llm" \in Range(stages) /\ resp = Unset

\* translate was called and returned nothing
TranslateRejected == "translate" \in Range(stages) /\ parsed = Unset

\* C25: when the model call fails or translate rejects the response, the
\* request ends with an error shown and a non-zero exit status, without a
\* confirmation prompt, a call of execute or a storage-engine write, and the
\* model has been called once.
C25_ResolutionFailureIsTerminal ==
    (ModelCallFailed \/ TranslateRejected) =>
        /\ pc = "done"
        /\ exit_code = << FailureExit >>
        /\ exit_code # << 0 >>
        /\ IsErrorLine(output[Len(output)])
        /\ prompts = 0
        /\ answer = "none"
        /\ executeCalls = 0
        /\ Range(engineCalls) \cap EngineWrites = {}
        /\ llmCalls = 1
        /\ "confirmation" \notin Range(stages)
        /\ "execute" \notin Range(stages)

\* a parsed answer that translate rejected
C25_Witness ==
    /\ TranslateRejected
    /\ resp # Unset
    /\ pc = "done"
    /\ exit_code = << FailureExit >>

\* C27: a request exits with status 0 only if execute returned an envelope
\* with success = true: a failed envelope ends in a non-zero exit status.
C27_FailedEnvelopeExitsNonZero ==
    (pc = "done" /\ result # Unset /\ ~result.success) =>
        exit_code # << 0 >>

====
